---- MODULE Spec2Model ----
(***************************************************************************)
(* A model of outputcatcher (src/outputcatcher/catchers.py):               *)
(*   - StdOutCatcher / StdErrCatcher: an in-memory sink bound to           *)
(*     sys.stdout / sys.stderr for the time of a with-block;               *)
(*   - ProcessOutput: a child process whose stdout and stderr are pipes    *)
(*     that run() / iter_stdout() / iter_stderr() read line by line.       *)
(*                                                                         *)
(* A str is a sequence of characters; the characters are the tokens        *)
(*   "a" "n"  ordinary characters                                          *)
(*   "NL" "CR" the control characters newline and carriage return          *)
(*   "r"      an ordinary character (repr() writes "CR" as "BS" "r")       *)
(*   "E"      a character outside ASCII (two bytes in UTF-8)               *)
(*   "BS"     the backslash                                                *)
(*   "SQ" "DQ" the single and the double quote.                            *)
(* An argument of write() is a record [type, val]: type "str" for a str,   *)
(* "bytes" for a value that is no str.                                     *)
(***************************************************************************)
EXTENDS Integers, Sequences, FiniteSets, TLC

VARIABLES
    catchers,     \* catcher id -> the object's fields
    written,      \* catcher id -> every str passed to its write(), concatenated (history)
    sys_stdout,   \* the binding of sys.stdout: 0 is sys.__stdout__, n > 0 catcher n
    sys_stderr,   \* the binding of sys.stderr: 0 is sys.__stderr__, n > 0 catcher n
    blocks,       \* the with-blocks entered and not yet left, innermost last
    exc,          \* the exception in flight: "none", "TypeError", "Error"
    ret,          \* the value the last write() returned (-1: it raised, or none yet)
    arg,          \* the argument of the last write() on a catcher
    os_out,       \* number of writes that went to the original OS streams
    seen          \* catcher id -> the text written to its stream during its block (history)

catcherVars == <<catchers, written, sys_stdout, sys_stderr, blocks, exc, ret, arg,
                 os_out, seen>>

VARIABLES
    args,         \* ProcessOutput.args: "found" when the executable exists, else "missing"
    timeout,      \* ProcessOutput.timeout
    proc,         \* ProcessOutput.proc: None, or the number of the process launched last
    pid,          \* ProcessOutput.pid
    returncode,   \* ProcessOutput.returncode
    stdout,       \* ProcessOutput.stdout, bytes
    stderr,       \* ProcessOutput.stderr, bytes
    child,        \* the process self.proc names: its pipes and what it does next
    pc,           \* where the caller's thread is: "idle", or inside run() / an iteration
    run_timeout,  \* the timeout argument of the run() in progress
    rbuf,         \* the buffered readers of proc.stdout and proc.stderr
    lines,        \* the lines _iter_proc_output has yielded from each stream
    error,        \* the exception the last call raised to its caller, or "none"
    t,            \* ticks of time since run() was called; since wait() was, once in it
    calls,        \* number of calls made on the instance
    ops,          \* number of writes and closes the children have done
    stdin_data,   \* ProcessOutput.stdin_data: None, a str or bytes
    stdin_file,   \* the temporary file of the last _run(): "none", "open", "closed"
    sent,         \* the bytes the child has written to each stream (history)
    call,         \* the call in progress: "none", "run", "enter", "iter"
    waited        \* the process whose wait() has returned last, or None (history)

procVars == <<args, timeout, proc, pid, returncode, stdout, stderr, child, pc,
              run_timeout, rbuf, lines, error, t, calls, ops,
              stdin_data, stdin_file, sent, call, waited>>

vars == <<catcherVars, procVars>>

----------------------------------------------------------------------------
(* Bounds of the model.                                                    *)

\* total number of characters written to one catcher
MaxRaw == 3
\* largest max_length a catcher is constructed with
MaxMaxLen == 2
\* number of catcher objects constructed in one behaviour of SpecScope
MaxCatchers == 2
\* number of stream writes in one behaviour of SpecScope
MaxScopeWrites == 2
\* number of bytes a pipe holds before a write to it blocks
PipeCap == 2
\* number of writes and closes the children of one instance do in all
MaxChildOps == 3
\* the largest timeout, and the ticks of time a behaviour counts
MaxTime == 1
\* number of calls (run, with, iter_stdout, iter_stderr) made on one instance
MaxCalls == 2
\* number of characters (bytes) of the stdin_data given to an echoing child
MaxData == 3

----------------------------------------------------------------------------
(* Strings.                                                                *)

ControlChars == {"NL", "CR"}

WriteChars == {"a", "NL", "CR", "BS"}

RECURSIVE StrsOfLen(_, _)
StrsOfLen(chars, n) ==
    IF n = 0 THEN {<<>>}
    ELSE {<<c>> \o s : c \in chars, s \in StrsOfLen(chars, n - 1)}

StrsUpTo(chars, n) == UNION {StrsOfLen(chars, k) : k \in 0..n}

Str(s) == [type |-> "str", val |-> s]

NonStr == [type |-> "bytes", val |-> <<>>]

Has(s, c) == \E i \in 1..Len(s) : s[i] = c

\* the quote repr() encloses a str in: double quotes when the str holds a
\* single quote and no double quote, single quotes otherwise
ReprQuote(s) == IF Has(s, "SQ") /\ ~Has(s, "DQ") THEN "DQ" ELSE "SQ"

\* repr() of one character inside quotes q
ReprChar(c, q) ==
    CASE c = "BS" -> <<"BS", "BS">>
      [] c = "NL" -> <<"BS", "n">>
      [] c = "CR" -> <<"BS", "r">>
      [] c = q    -> <<"BS", c>>
      [] OTHER    -> <<c>>

RECURSIVE ReprBody(_, _)
ReprBody(s, q) ==
    IF s = <<>> THEN <<>>
    ELSE ReprChar(Head(s), q) \o ReprBody(Tail(s), q)

\* repr(s): the quoted, escaped form of s
Repr(s) == <<ReprQuote(s)>> \o ReprBody(s, ReprQuote(s)) \o <<ReprQuote(s)>>

\* escape_output(s) == repr(s)[1:-1]
escape_output(s) == SubSeq(Repr(s), 2, Len(Repr(s)) - 1)

----------------------------------------------------------------------------
(* StdOutCatcher / StdErrCatcher objects.                                  *)

Kinds == {"out", "err"}

\* StdOutCatcher.__init__ (StdErrCatcher inherits it)
NewCatcher(kind, escaped, max_length) ==
    [kind         |-> kind,
     escaped      |-> escaped,
     max_length   |-> max_length,
     _output      |-> <<>>,
     length       |-> 0,
     max_exceeded |-> FALSE]

\* a setter that stores the value as it is
SetOutput_never_escapes(self, value) ==
    [self EXCEPT !._output = value]

\* a setter that escapes whatever self.escaped says
SetOutput_always_escapes(self, value) ==
    [self EXCEPT !._output = escape_output(value)]

\* the output setter: escapes the value when self.escaped
SetOutput(self, value) ==
    IF self.escaped
    THEN [self EXCEPT !._output = escape_output(value)]
    ELSE [self EXCEPT !._output = value]

\* a trim that closes the buffer and cuts nothing
TrimOutput_closes_without_cut(self) ==
    IF (self.max_length > 0) /\ Len(self._output) >= self.max_length
    THEN [self EXCEPT !.max_exceeded = TRUE]
    ELSE self

\* the trim of write(): cut to max_length through the setter, close the buffer
TrimOutput(self) ==
    IF (self.max_length > 0) /\ Len(self._output) >= self.max_length
    THEN [SetOutput(self, SubSeq(self._output, 1, self.max_length))
            EXCEPT !.max_exceeded = TRUE]
    ELSE self

\* a write() that looks at max_exceeded before it looks at the type
write_checks_closed_first(self, s) ==
    IF self.max_exceeded
    THEN [self |-> self, ret |-> 0, exc |-> "none"]
    ELSE IF s.type # "str"
    THEN [self |-> self, ret |-> -1, exc |-> "TypeError"]
    ELSE IF s.val = <<>>
    THEN [self |-> self, ret |-> 0, exc |-> "none"]
    ELSE LET joined  == SetOutput(self, self._output \o s.val)
             trimmed == TrimOutput(joined)
         IN  [self |-> [trimmed EXCEPT !.length = Len(trimmed._output)],
              ret  |-> Len(s.val),
              exc  |-> "none"]

\* a write() that never looks at max_exceeded
write_ignores_max_exceeded(self, s) ==
    IF s.type # "str"
    THEN [self |-> self, ret |-> -1, exc |-> "TypeError"]
    ELSE IF s.val = <<>>
    THEN [self |-> self, ret |-> 0, exc |-> "none"]
    ELSE LET joined  == SetOutput(self, self._output \o s.val)
             trimmed == TrimOutput(joined)
         IN  [self |-> [trimmed EXCEPT !.length = Len(trimmed._output)],
              ret  |-> Len(s.val),
              exc  |-> "none"]

\* a write() that returns the number of characters it kept
write_returns_kept(self, s) ==
    IF s.type # "str"
    THEN [self |-> self, ret |-> -1, exc |-> "TypeError"]
    ELSE IF s.val = <<>> \/ self.max_exceeded
    THEN [self |-> self, ret |-> 0, exc |-> "none"]
    ELSE LET joined  == SetOutput(self, self._output \o s.val)
             trimmed == TrimOutput(joined)
         IN  [self |-> [trimmed EXCEPT !.length = Len(trimmed._output)],
              ret  |-> Len(trimmed._output) - Len(self._output),
              exc  |-> "none"]

\* write(s): the object after the call, the value returned, the exception raised
write(self, s) ==
    IF s.type # "str"
    THEN [self |-> self, ret |-> -1, exc |-> "TypeError"]
    ELSE IF s.val = <<>> \/ self.max_exceeded
    THEN [self |-> self, ret |-> 0, exc |-> "none"]
    ELSE LET joined  == SetOutput(self, self._output \o s.val)
             trimmed == TrimOutput(joined)
         IN  [self |-> [trimmed EXCEPT !.length = Len(trimmed._output)],
              ret  |-> Len(s.val),
              exc  |-> "none"]

\* what __exit__ binds the stream to: sys.__stdout__ / sys.__stderr__
ExitBinding(prev) == 0

\* the value __exit__ returns: False, the exception is not swallowed
ExitReturn == FALSE

Ids == DOMAIN catchers

Binding(kind) == IF kind = "out" THEN sys_stdout ELSE sys_stderr

RECURSIVE TotalWritten(_)
TotalWritten(ids) ==
    IF ids = {} THEN 0
    ELSE LET c == CHOOSE x \in ids : TRUE
         IN  Len(written[c]) + TotalWritten(ids \ {c})

----------------------------------------------------------------------------
(* Operations on catchers.                                                 *)

\* with StdOutCatcher(escaped, max_length) as c: (or StdErrCatcher): the object
\* is constructed (__init__) and the block entered (__enter__); prev remembers,
\* for the properties only, what the stream was bound to before
With(kind, escaped, max_length) ==
    /\ exc = "none"
    /\ Cardinality(Ids) < MaxCatchers
    /\ LET c == Cardinality(Ids) + 1
       IN  /\ catchers' = catchers @@ (c :> NewCatcher(kind, escaped, max_length))
           /\ written' = written @@ (c :> <<>>)
           /\ seen' = seen @@ (c :> <<>>)
           /\ blocks' = Append(blocks, [cat |-> c, prev |-> Binding(kind)])
           /\ IF kind = "out"
              THEN sys_stdout' = c /\ UNCHANGED sys_stderr
              ELSE sys_stderr' = c /\ UNCHANGED sys_stdout
    /\ UNCHANGED <<exc, ret, arg, os_out>>

\* an __exit__ that binds both streams to the OS streams
Exit_resets_both ==
    /\ blocks # <<>>
    /\ sys_stdout' = 0
    /\ sys_stderr' = 0
    /\ blocks' = SubSeq(blocks, 1, Len(blocks) - 1)
    /\ exc' = IF ExitReturn THEN "none" ELSE exc
    /\ UNCHANGED <<catchers, written, ret, arg, os_out, seen>>

\* the innermost with-block is left (__exit__), normally or by the exception
\* in flight
Exit ==
    /\ blocks # <<>>
    /\ LET b == blocks[Len(blocks)]
       IN  /\ IF catchers[b.cat].kind = "out"
              THEN sys_stdout' = ExitBinding(b.prev) /\ UNCHANGED sys_stderr
              ELSE sys_stderr' = ExitBinding(b.prev) /\ UNCHANGED sys_stdout
           /\ blocks' = SubSeq(blocks, 1, Len(blocks) - 1)
           /\ exc' = IF ExitReturn THEN "none" ELSE exc
    /\ UNCHANGED <<catchers, written, ret, arg, os_out, seen>>

\* c.write(s), the effect on the catcher
WriteCatcher(c, s) ==
    /\ exc = "none"
    /\ c \in Ids
    /\ s.type = "str" => Len(written[c]) + Len(s.val) <= MaxRaw
    /\ LET r == write(catchers[c], s)
       IN  /\ catchers' = [catchers EXCEPT ![c] = r.self]
           /\ ret' = r.ret
           /\ exc' = r.exc
    /\ arg' = s
    /\ written' = IF s.type = "str"
                  THEN [written EXCEPT ![c] = @ \o s.val]
                  ELSE written
    /\ UNCHANGED <<sys_stdout, sys_stderr, blocks, os_out>>

\* c.write(s), called on the catcher itself
Write(c, s) == WriteCatcher(c, s) /\ UNCHANGED seen

\* the catchers of the kind whose with-block is open
OpenOf(kind) ==
    {blocks[i].cat : i \in {j \in 1..Len(blocks) : catchers[blocks[j].cat].kind = kind}}

\* sys.stdout.write(s) / sys.stderr.write(s): goes to whatever is bound
WriteStream(kind, s) ==
    /\ seen' = [c \in Ids |->
                   IF s.type = "str" /\ c \in OpenOf(kind)
                   THEN seen[c] \o s.val ELSE seen[c]]
    /\ IF Binding(kind) = 0
       THEN /\ exc = "none"
            /\ os_out' = IF s.type = "str" THEN os_out + 1 ELSE os_out
            /\ exc' = IF s.type = "str" THEN "none" ELSE "TypeError"
            /\ UNCHANGED <<catchers, written, sys_stdout, sys_stderr, blocks, ret,
                           arg>>
       ELSE WriteCatcher(Binding(kind), s)

\* the body of a with-block raises
Raise ==
    /\ exc = "none"
    /\ blocks # <<>>
    /\ exc' = "Error"
    /\ UNCHANGED <<catchers, written, sys_stdout, sys_stderr, blocks, ret, arg,
                   os_out, seen>>

\* the exception has left every with-block and reached the caller, who handles it
Caught ==
    /\ exc # "none"
    /\ blocks = <<>>
    /\ exc' = "none"
    /\ UNCHANGED <<catchers, written, sys_stdout, sys_stderr, blocks, ret, arg,
                   os_out, seen>>

----------------------------------------------------------------------------
(* Bytes, lines and pipes.                                                 *)

\* Python's None, for proc, pid, returncode and the timeouts
None == -1

Fds == {"out", "err"}

Bytes == {"a", "NL"}

EmptyStreams == [out |-> <<>>, err |-> <<>>]

HasNL(buf) == Has(buf, "NL")

\* a readline() that takes the buffer up to its last newline
FirstLine_to_last_newline(buf) ==
    LET i == CHOOSE k \in 1..Len(buf) :
                 buf[k] = "NL" /\ \A j \in (k + 1)..Len(buf) : buf[j] # "NL"
    IN  SubSeq(buf, 1, i)

\* readline() on a buffer that holds a newline: the bytes up to and with it
FirstLine(buf) ==
    LET i == CHOOSE k \in 1..Len(buf) :
                 buf[k] = "NL" /\ \A j \in 1..(k - 1) : buf[j] # "NL"
    IN  SubSeq(buf, 1, i)

\* line.rstrip(b'\n')
RECURSIVE rstrip(_)
rstrip(line) ==
    IF line # <<>> /\ line[Len(line)] = "NL"
    THEN rstrip(SubSeq(line, 1, Len(line) - 1))
    ELSE line

\* b'\n'.join(ls)
RECURSIVE join(_)
join(ls) ==
    IF ls = <<>> THEN <<>>
    ELSE IF Len(ls) = 1 THEN ls[1]
    ELSE ls[1] \o <<"NL">> \o join(Tail(ls))

----------------------------------------------------------------------------
(* The data given to the child as its stdin.                               *)

\* stdin_data=None
NoData == [type |-> "None", val |-> <<>>]

\* bytes(...) given as stdin_data
BytesData(b) == [type |-> "bytes", val |-> b]

\* the UTF-8 encoding of one character: "E" is a character outside ASCII
\* (two bytes), every other character is one byte
EncodeChar(c) == IF c = "E" THEN <<"C3", "A9">> ELSE <<c>>

\* str.encode()
RECURSIVE encode(_)
encode(s) == IF s = <<>> THEN <<>> ELSE EncodeChar(Head(s)) \o encode(Tail(s))

\* TempStdinInput(data): the content of the temporary file, read from offset 0
TempStdinInput(data) == IF data.type = "str" THEN encode(data.val) ELSE data.val

----------------------------------------------------------------------------
(* The child process.  What it does next is chosen when the step before    *)
(* completes, so a child blocked in a write stays committed to it.         *)
(* args names the program: "found" is any program at all, "cat" copies its *)
(* stdin to stdout, "helper_o" and "helper_e" are the test helper run with *)
(* -i, printing its stdin to stdout or (with -e) to stderr.                *)

WriteOp(fd, b) == [op |-> "write", fd |-> fd, b |-> b]

CloseOp(fd) == [op |-> "close", fd |-> fd, b |-> ""]

ExitOp == [op |-> "exit", fd |-> "", b |-> ""]

\* the steps open to a child when n writes and closes have been done
NextOps(open, n) ==
    IF n >= MaxChildOps
    THEN {ExitOp}
    ELSE {WriteOp(fd, b) : fd \in {f \in Fds : open[f]}, b \in Bytes}
         \cup {CloseOp(fd) : fd \in {f \in Fds : open[f]}}
         \cup {ExitOp}

\* the programs that echo their stdin
Echoers == {"cat", "helper_o", "helper_e"}

\* the line the helper prints when its stdin is empty
HelperDefault == <<"m">>

\* the bytes an echoing program writes when its stdin holds data: cat writes
\* the data, the helper prints it (or its default line), that is with a
\* newline after it
Script(a, data) ==
    IF a = "cat" THEN data
    ELSE (IF data = <<>> THEN HelperDefault ELSE data) \o <<"NL">>

\* the stream an echoing program writes to
ScriptFd(a) == IF a = "helper_e" THEN "err" ELSE "out"

\* the step of an echoing program that has script left to write
ScriptOp(script, fd) ==
    IF script = <<>> THEN ExitOp ELSE WriteOp(fd, Head(script))

\* what is left of the script after that step
ScriptRest(script) == IF script = <<>> THEN <<>> ELSE Tail(script)

\* the steps open to the child after the step it is committed to
AfterOps(script, fd, open, n) ==
    IF args \in Echoers THEN {ScriptOp(script, fd)} ELSE NextOps(open, n)

\* no process yet
NoChild ==
    [next   |-> ExitOp,
     script |-> <<>>,
     pipe   |-> EmptyStreams,
     open   |-> [out |-> FALSE, err |-> FALSE],
     exited |-> FALSE]

\* subprocess.Popen(args, stdout=PIPE, stderr=PIPE): a process with two empty
\* pipes; script is what an echoing program writes after its first step
Popen(first, script) ==
    [next   |-> first,
     script |-> script,
     pipe   |-> EmptyStreams,
     open   |-> [out |-> TRUE, err |-> TRUE],
     exited |-> FALSE]

\* a write of one byte: blocks while the pipe is full
ChildWrite ==
    /\ pc # "idle"
    /\ ~child.exited
    /\ child.next.op = "write"
    /\ Len(child.pipe[child.next.fd]) < PipeCap
    /\ \E op \in AfterOps(child.script, child.next.fd, child.open, ops + 1) :
          child' = [child EXCEPT !.pipe[child.next.fd] = Append(@, child.next.b),
                                 !.next = op,
                                 !.script = ScriptRest(@)]
    /\ sent' = [sent EXCEPT ![child.next.fd] = Append(@, child.next.b)]
    /\ ops' = ops + 1
    /\ UNCHANGED <<stdin_data, stdin_file, call, waited,
                   args, timeout, proc, pid, returncode, stdout, stderr, pc,
                   run_timeout, rbuf, lines, error, t, calls>>

\* the child closes its end of one pipe and goes on running
ChildClose ==
    /\ pc # "idle"
    /\ ~child.exited
    /\ child.next.op = "close"
    /\ LET open == [child.open EXCEPT ![child.next.fd] = FALSE]
       IN  \E op \in NextOps(open, ops + 1) :
              child' = [child EXCEPT !.open = open, !.next = op]
    /\ ops' = ops + 1
    /\ UNCHANGED <<stdin_data, stdin_file, sent, call, waited,
                   args, timeout, proc, pid, returncode, stdout, stderr, pc,
                   run_timeout, rbuf, lines, error, t, calls>>

\* the child exits: both its pipe ends are closed
ChildExit ==
    /\ pc # "idle"
    /\ ~child.exited
    /\ child.next.op = "exit"
    /\ child' = [child EXCEPT !.exited = TRUE,
                              !.open = [out |-> FALSE, err |-> FALSE]]
    /\ UNCHANGED <<stdin_data, stdin_file, sent, call, waited,
                   args, timeout, proc, pid, returncode, stdout, stderr, pc,
                   run_timeout, rbuf, lines, error, t, calls, ops>>

----------------------------------------------------------------------------
(* ProcessOutput.                                                          *)

Timeouts == {None, 0, MaxTime}

\* a close of the temporary file that is skipped when Popen raises
StdinFileAfter_no_finally(spawned) ==
    IF stdin_data = NoData THEN "none"
    ELSE IF spawned THEN "closed" ELSE "open"

\* the temporary file when _run() returns or raises: there is none for
\* stdin_data=None, else the finally clause has closed it
StdinFileAfter(spawned) ==
    IF stdin_data = NoData THEN "none" ELSE "closed"

\* the first step of the new child and what is left of its script
FirstOps ==
    IF args \in Echoers
    THEN LET script == Script(args, TempStdinInput(stdin_data))
         IN  {Popen(ScriptOp(script, ScriptFd(args)), ScriptRest(script))}
    ELSE {Popen(op, <<>>) : op \in NextOps([out |-> TRUE, err |-> TRUE], ops)}

\* a _run() that binds self.proc and self.pid before Popen has succeeded
_run_assigns_before_spawn(next_pc, kind) ==
    IF args = "missing"
    THEN /\ error' = "FileNotFoundError"
         /\ pc' = "idle"
         /\ call' = "none"
         /\ stdin_file' = StdinFileAfter(FALSE)
         /\ proc' = calls + 1
         /\ pid' = calls + 1
         /\ UNCHANGED <<child, sent>>
    ELSE /\ child' \in FirstOps
         /\ proc' = calls + 1
         /\ pid' = calls + 1
         /\ sent' = EmptyStreams
         /\ stdin_file' = StdinFileAfter(TRUE)
         /\ error' = "none"
         /\ pc' = next_pc
         /\ call' = kind

\* _run(): Popen fails for a missing executable; else self.proc and self.pid
\* are set and the caller, in a call of the given kind, goes on at next_pc
_run(next_pc, kind) ==
    IF args = "missing"
    THEN /\ error' = "FileNotFoundError"
         /\ pc' = "idle"
         /\ call' = "none"
         /\ stdin_file' = StdinFileAfter(FALSE)
         /\ UNCHANGED <<proc, pid, child, sent>>
    ELSE /\ child' \in FirstOps
         /\ proc' = calls + 1
         /\ pid' = calls + 1
         /\ sent' = EmptyStreams
         /\ stdin_file' = StdinFileAfter(TRUE)
         /\ error' = "none"
         /\ pc' = next_pc
         /\ call' = kind

\* run(timeout): up to the first readline of proc_output
CallRun(tmo) ==
    /\ pc = "idle"
    /\ calls < MaxCalls
    /\ calls' = calls + 1
    /\ run_timeout' = IF args = "missing" THEN None ELSE tmo
    /\ t' = 0
    /\ rbuf' = EmptyStreams
    /\ lines' = EmptyStreams
    /\ _run("read_out", "run")
    /\ UNCHANGED <<stdin_data, waited,
                   args, timeout, returncode, stdout, stderr, ops>>

\* with ProcessOutput(...) as p: __enter__ clears stdout and stderr, then run()
CallEnter ==
    /\ pc = "idle"
    /\ calls < MaxCalls
    /\ calls' = calls + 1
    /\ stdout' = <<>>
    /\ stderr' = <<>>
    /\ run_timeout' = None
    /\ t' = 0
    /\ rbuf' = EmptyStreams
    /\ lines' = EmptyStreams
    /\ _run("read_out", "enter")
    /\ UNCHANGED <<stdin_data, waited,
                   args, timeout, returncode, ops>>

\* iter_stdout() / iter_stderr(), from the call to the first readline
CallIter(fd) ==
    /\ pc = "idle"
    /\ calls < MaxCalls
    /\ calls' = calls + 1
    /\ run_timeout' = None
    /\ t' = 0
    /\ rbuf' = EmptyStreams
    /\ lines' = EmptyStreams
    /\ _run(IF fd = "out" THEN "iter_out" ELSE "iter_err", "iter")
    /\ UNCHANGED <<stdin_data, waited,
                   args, timeout, returncode, stdout, stderr, ops>>

\* the stream _iter_proc_output is reading
Reading == pc \in {"read_out", "read_err", "iter_out", "iter_err"}

Fd == IF pc \in {"read_out", "iter_out"} THEN "out" ELSE "err"

AtEOF(fd) == child.pipe[fd] = <<>> /\ ~child.open[fd]

\* readline() has no whole line yet: it takes what the pipe holds
Fill ==
    /\ Reading
    /\ ~HasNL(rbuf[Fd])
    /\ child.pipe[Fd] # <<>>
    /\ rbuf' = [rbuf EXCEPT ![Fd] = @ \o child.pipe[Fd]]
    /\ child' = [child EXCEPT !.pipe[Fd] = <<>>]
    /\ UNCHANGED <<stdin_data, stdin_file, sent, call, waited,
                   args, timeout, proc, pid, returncode, stdout, stderr, pc,
                   run_timeout, lines, error, t, calls, ops>>

\* readline() returns a line that ends with a newline; it is yielded stripped
YieldLine ==
    /\ Reading
    /\ HasNL(rbuf[Fd])
    /\ lines' = [lines EXCEPT ![Fd] = Append(@, rstrip(FirstLine(rbuf[Fd])))]
    /\ rbuf' = [rbuf EXCEPT ![Fd] =
                   SubSeq(@, Len(FirstLine(@)) + 1, Len(@))]
    /\ UNCHANGED <<stdin_data, stdin_file, sent, call, waited,
                   args, timeout, proc, pid, returncode, stdout, stderr, child, pc,
                   run_timeout, error, t, calls, ops>>

\* readline() at end of file returns the unterminated last line
YieldLast ==
    /\ Reading
    /\ ~HasNL(rbuf[Fd])
    /\ rbuf[Fd] # <<>>
    /\ AtEOF(Fd)
    /\ lines' = [lines EXCEPT ![Fd] = Append(@, rstrip(rbuf[Fd]))]
    /\ rbuf' = [rbuf EXCEPT ![Fd] = <<>>]
    /\ UNCHANGED <<stdin_data, stdin_file, sent, call, waited,
                   args, timeout, proc, pid, returncode, stdout, stderr, child, pc,
                   run_timeout, error, t, calls, ops>>

\* readline() returns b'': the stream is done
StreamDone == Reading /\ rbuf[Fd] = <<>> /\ AtEOF(Fd)

\* proc_output: stdout is joined, stderr is read next
EndStdout ==
    /\ pc = "read_out"
    /\ StreamDone
    /\ pc' = "read_err"
    /\ UNCHANGED <<stdin_data, stdin_file, sent, call, waited,
                   args, timeout, proc, pid, returncode, stdout, stderr, child,
                   run_timeout, rbuf, lines, error, t, calls, ops>>

\* proc_output returns; run() sets self.stdout, self.stderr and calls wait()
EndStderr ==
    /\ pc = "read_err"
    /\ StreamDone
    /\ stdout' = join(lines.out)
    /\ stderr' = join(lines.err)
    /\ pc' = "wait"
    /\ t' = 0
    /\ UNCHANGED <<stdin_data, stdin_file, sent, call, waited,
                   args, timeout, proc, pid, returncode, child,
                   run_timeout, rbuf, lines, error, calls, ops>>

\* a wait that uses self.timeout only
WaitTimeoutArg_self_only == timeout

\* the timeout run() waits with: timeout or self.timeout
WaitTimeoutArg ==
    IF run_timeout # None /\ run_timeout # 0 THEN run_timeout ELSE timeout

\* proc.wait() returns the exit status of a child that has exited; run()
\* returns, and when __enter__ called it the body of the with-block begins
WaitReturn ==
    /\ pc = "wait"
    /\ child.exited
    /\ returncode' = 0
    /\ waited' = proc
    /\ pc' = IF call = "enter" THEN "body" ELSE "idle"
    /\ call' = "none"
    /\ run_timeout' = None
    /\ t' = 0
    /\ UNCHANGED <<stdin_data, stdin_file, sent,
                   args, timeout, proc, pid, stdout, stderr, child,
                   rbuf, lines, error, calls, ops>>

\* a wait that kills the child when its timeout expires, as subprocess.run()
\* does
WaitTimeout_kills ==
    /\ pc = "wait"
    /\ WaitTimeoutArg # None
    /\ ~child.exited
    /\ t >= WaitTimeoutArg
    /\ error' = "TimeoutExpired"
    /\ pc' = "idle"
    /\ call' = "none"
    /\ run_timeout' = None
    /\ t' = 0
    /\ child' = [child EXCEPT !.exited = TRUE,
                              !.open = [out |-> FALSE, err |-> FALSE]]
    /\ UNCHANGED <<stdin_data, stdin_file, sent, waited,
                   args, timeout, proc, pid, returncode, stdout, stderr,
                   rbuf, lines, calls, ops>>

\* proc.wait(timeout) raises TimeoutExpired
WaitTimeout ==
    /\ pc = "wait"
    /\ WaitTimeoutArg # None
    /\ ~child.exited
    /\ t >= WaitTimeoutArg
    /\ error' = "TimeoutExpired"
    /\ pc' = "idle"
    /\ call' = "none"
    /\ run_timeout' = None
    /\ t' = 0
    /\ UNCHANGED <<stdin_data, stdin_file, sent, waited,
                   args, timeout, proc, pid, returncode, stdout, stderr, child,
                   rbuf, lines, calls, ops>>

\* an end of iteration that waits for the child as run() does
IterStop_waits ==
    /\ pc \in {"iter_out", "iter_err"}
    /\ StreamDone
    /\ child.exited
    /\ returncode' = 0
    /\ waited' = proc
    /\ pc' = "idle"
    /\ call' = "none"
    /\ UNCHANGED <<stdin_data, stdin_file, sent,
                   args, timeout, proc, pid, stdout, stderr, child,
                   run_timeout, rbuf, lines, error, t, calls, ops>>

\* the iteration ends (StopIteration)
IterStop ==
    /\ pc \in {"iter_out", "iter_err"}
    /\ StreamDone
    /\ pc' = "idle"
    /\ call' = "none"
    /\ UNCHANGED <<stdin_data, stdin_file, sent, waited,
                   args, timeout, proc, pid, returncode, stdout, stderr, child,
                   run_timeout, rbuf, lines, error, t, calls, ops>>

\* the consumer drops the iterator before its end
IterAbandon ==
    /\ pc \in {"iter_out", "iter_err"}
    /\ pc' = "idle"
    /\ call' = "none"
    /\ UNCHANGED <<stdin_data, stdin_file, sent, waited,
                   args, timeout, proc, pid, returncode, stdout, stderr, child,
                   run_timeout, rbuf, lines, error, t, calls, ops>>

\* the body of the with-block ends: __exit__ returns False
ExitBlock ==
    /\ pc = "body"
    /\ pc' = "idle"
    /\ UNCHANGED <<stdin_data, stdin_file, sent, call, waited,
                   args, timeout, proc, pid, returncode, stdout, stderr, child,
                   run_timeout, rbuf, lines, error, t, calls, ops>>

\* time passes while run() is in progress
Tick ==
    /\ pc \in {"read_out", "read_err", "wait"}
    /\ t < MaxTime
    /\ t' = t + 1
    /\ UNCHANGED <<stdin_data, stdin_file, sent, call, waited,
                   args, timeout, proc, pid, returncode, stdout, stderr, child, pc,
                   run_timeout, rbuf, lines, error, calls, ops>>

\* ProcessOutput.__init__
NewProcessOutput(a, d, tmo) ==
    /\ args = a
    /\ stdin_data = d
    /\ timeout = tmo
    /\ proc = None
    /\ pid = None
    /\ returncode = None
    /\ stdout = <<>>
    /\ stderr = <<>>
    /\ child = NoChild
    /\ pc = "idle"
    /\ run_timeout = None
    /\ rbuf = EmptyStreams
    /\ lines = EmptyStreams
    /\ error = "none"
    /\ t = 0
    /\ calls = 0
    /\ ops = 0
    /\ stdin_file = "none"
    /\ sent = EmptyStreams
    /\ call = "none"
    /\ waited = None

\* no catcher, the streams bound to the OS streams
NoCatchers ==
    /\ catchers = <<>>
    /\ written = <<>>
    /\ sys_stdout = 0
    /\ sys_stderr = 0
    /\ blocks = <<>>
    /\ exc = "none"
    /\ ret = -1
    /\ arg = Str(<<>>)
    /\ os_out = 0
    /\ seen = <<>>

----------------------------------------------------------------------------
(* SpecWrite: one catcher, any configuration, any sequence of write().     *)

WriteArgs == {Str(s) : s \in StrsUpTo(WriteChars, MaxRaw)} \cup {NonStr}

InitWrite ==
    /\ \E e \in BOOLEAN, m \in 0..MaxMaxLen :
          catchers = (1 :> NewCatcher("out", e, m))
    /\ written = (1 :> <<>>)
    /\ sys_stdout = 0
    /\ sys_stderr = 0
    /\ blocks = <<>>
    /\ exc = "none"
    /\ ret = -1
    /\ arg = Str(<<>>)
    /\ os_out = 0
    /\ seen = (1 :> <<>>)
    /\ NewProcessOutput("found", NoData, None)

NextWrite ==
    \/ (\E s \in WriteArgs : Write(1, s)) /\ UNCHANGED procVars
    \/ Caught /\ UNCHANGED procVars

SpecWrite == InitWrite /\ [][NextWrite]_vars

----------------------------------------------------------------------------
(* SpecScope: catchers in nested with-blocks over sys.stdout / sys.stderr. *)

ScopeArgs == {Str(<<"a">>), Str(<<"NL">>), NonStr}

InitScope ==
    /\ NoCatchers
    /\ NewProcessOutput("found", NoData, None)

\* the catchers of SpecScope: the default one, and one that escapes and
\* truncates
ScopeConfigs ==
    {[escaped |-> FALSE, max_length |-> 0], [escaped |-> TRUE, max_length |-> 1]}

NextScope ==
    \/ (\E k \in Kinds, cfg \in ScopeConfigs : With(k, cfg.escaped, cfg.max_length))
          /\ UNCHANGED procVars
    \/ Exit /\ UNCHANGED procVars
    \/ (\E k \in Kinds, s \in ScopeArgs :
             /\ TotalWritten(Ids) + os_out < MaxScopeWrites
             /\ WriteStream(k, s))
          /\ UNCHANGED procVars
    \/ Raise /\ UNCHANGED procVars
    \/ Caught /\ UNCHANGED procVars

SpecScope == InitScope /\ [][NextScope]_vars

----------------------------------------------------------------------------
(* SpecProc: one ProcessOutput instance, its child and the passing of time. *)

InitProc ==
    /\ NoCatchers
    /\ \E a \in {"found", "missing"}, tmo \in Timeouts : NewProcessOutput(a, NoData, tmo)

NextProc ==
    \/ (\E tmo \in Timeouts : CallRun(tmo)) /\ UNCHANGED catcherVars
    \/ CallEnter /\ UNCHANGED catcherVars
    \/ (\E fd \in Fds : CallIter(fd)) /\ UNCHANGED catcherVars
    \/ Fill /\ UNCHANGED catcherVars
    \/ YieldLine /\ UNCHANGED catcherVars
    \/ YieldLast /\ UNCHANGED catcherVars
    \/ EndStdout /\ UNCHANGED catcherVars
    \/ EndStderr /\ UNCHANGED catcherVars
    \/ WaitReturn /\ UNCHANGED catcherVars
    \/ WaitTimeout /\ UNCHANGED catcherVars
    \/ IterStop /\ UNCHANGED catcherVars
    \/ IterAbandon /\ UNCHANGED catcherVars
    \/ ExitBlock /\ UNCHANGED catcherVars
    \/ Tick /\ UNCHANGED catcherVars
    \/ ChildWrite /\ UNCHANGED catcherVars
    \/ ChildClose /\ UNCHANGED catcherVars
    \/ ChildExit /\ UNCHANGED catcherVars

SpecProc == InitProc /\ [][NextProc]_vars

----------------------------------------------------------------------------
(* SpecEcho: one ProcessOutput instance with stdin_data, run on a program  *)
(* that echoes its stdin, or on one that does not exist.                   *)

StdinChars == {"a", "NL", "CR", "E"}

StdinBytes == {"a", "NL", "CR"}

\* the input of the line-streaming scenario: "a\nb\nc"
ABC == <<"a", "NL", "b", "NL", "c">>

StdinDatas ==
    {Str(s) : s \in StrsUpTo(StdinChars, MaxData)}
    \cup {BytesData(b) : b \in StrsUpTo(StdinBytes, MaxData)}
    \cup {Str(ABC)}

InitEcho ==
    /\ NoCatchers
    /\ \E a \in Echoers \cup {"missing"}, d \in StdinDatas :
          NewProcessOutput(a, d, None)

NextEcho ==
    \/ CallRun(None) /\ UNCHANGED catcherVars
    \/ (\E fd \in Fds : CallIter(fd)) /\ UNCHANGED catcherVars
    \/ Fill /\ UNCHANGED catcherVars
    \/ YieldLine /\ UNCHANGED catcherVars
    \/ YieldLast /\ UNCHANGED catcherVars
    \/ EndStdout /\ UNCHANGED catcherVars
    \/ EndStderr /\ UNCHANGED catcherVars
    \/ WaitReturn /\ UNCHANGED catcherVars
    \/ IterStop /\ UNCHANGED catcherVars
    \/ ChildWrite /\ UNCHANGED catcherVars
    \/ ChildExit /\ UNCHANGED catcherVars

SpecEcho == InitEcho /\ [][NextEcho]_vars

----------------------------------------------------------------------------
(* Properties.                                                             *)

\* a step of the caller's thread inside run()
RunStep ==
    Fill \/ YieldLine \/ YieldLast \/ EndStdout \/ EndStderr \/ WaitReturn \/ WaitTimeout

\* a step of the caller's thread inside an iteration
IterStep == Fill \/ YieldLine \/ YieldLast \/ IterStop

ChildStep == ChildWrite \/ ChildClose \/ ChildExit

\* C1: run() never deadlocks on a child that writes to both streams: while
\* run() is in progress, the caller's thread or the child can always take a
\* step, whatever the child has written to either pipe.
C1_RunNeverDeadlocks ==
    pc \in {"read_out", "read_err", "wait"} => ENABLED (RunStep \/ ChildStep)

\* the innermost block of kind k on the stack of with-blocks
InnermostOf(k) ==
    LET is == {i \in 1..Len(blocks) : catchers[blocks[i].cat].kind = k}
    IN  blocks[CHOOSE i \in is : \A j \in is : j <= i].cat

\* C2: with nested redirections of one stream, the stream is bound to the
\* innermost catcher whose block is still open: leaving the inner block
\* rebinds it to the enclosing catcher, not to the original OS stream.
C2_InnerExitRebindsEnclosing ==
    \A k \in Kinds :
        (\E i \in 1..Len(blocks) : catchers[blocks[i].cat].kind = k)
            => Binding(k) = InnermostOf(k)

\* C3: on every exit of a with-block, normal or by an exception, the stream
\* is bound again to what it was bound to just before the block was entered,
\* and an exception in flight stays in flight.
C3_ExitRestoresPrevious ==
    [][(blocks # <<>> /\ blocks' = SubSeq(blocks, 1, Len(blocks) - 1))
          => LET b == blocks[Len(blocks)]
             IN  /\ (IF catchers[b.cat].kind = "out"
                     THEN sys_stdout' ELSE sys_stderr') = b.prev
                 /\ exc' = exc]_vars

\* C4: a catcher constructed with max_length > 0 never holds more than
\* max_length characters of output, escaped or not.
C4_OutputWithinMaxLength ==
    \A c \in Ids :
        catchers[c].max_length > 0
            => Len(catchers[c]._output) <= catchers[c].max_length

\* the buffer has reached or exceeded its max_length
Full(c) ==
    catchers[c].max_length > 0
    /\ Len(catchers[c]._output) >= catchers[c].max_length

\* C5: once the output has reached or exceeded max_length (> 0) the buffer is
\* closed for good: every later write() of a str returns 0 and leaves the
\* output as it was, and the buffer stays closed.
C5_ClosedForGood ==
    [][\A c \in Ids :
          Full(c) => /\ catchers'[c]._output = catchers[c]._output
                     /\ catchers'[c].max_exceeded
                     /\ (exc = "none" /\ exc' = "none") => ret' = 0]_vars

\* C5 witness: a non-empty str was written to a closed buffer and 0 came back
C5_Witness ==
    /\ Full(1)
    /\ catchers[1].max_exceeded
    /\ arg.type = "str"
    /\ arg.val # <<>>
    /\ ret = 0
    /\ Len(written[1]) > Len(arg.val)

\* C6: with escaped = True (and no max_length) the output is the escape
\* function applied once to all the text written so far.
C6_EscapedOnce ==
    \A c \in Ids :
        (catchers[c].escaped /\ catchers[c].max_length = 0)
            => catchers[c]._output = escape_output(written[c])

\* the last write() was of a str and is the only text catcher c was given
OneWrite(c) == exc = "none" /\ arg.type = "str" /\ written[c] = arg.val

\* C7: one write(s) with len(s) >= max_length = m > 0 on a fresh catcher
\* leaves the output at exactly m characters, the first m of s.
C7_OneLongWrite ==
    \A c \in Ids :
        (OneWrite(c) /\ catchers[c].max_length > 0
            /\ Len(arg.val) >= catchers[c].max_length)
            => /\ Len(catchers[c]._output) = catchers[c].max_length
               /\ catchers[c]._output = SubSeq(arg.val, 1, catchers[c].max_length)

\* C8 as stated: one write(s) with len(s) < max_length on a fresh catcher
\* gives output == s and does not close the buffer.
C8_OneShortWrite ==
    \A c \in Ids :
        (OneWrite(c) /\ Len(arg.val) < catchers[c].max_length)
            => /\ catchers[c]._output = arg.val
               /\ ~catchers[c].max_exceeded

\* C8 amended: the same, on a catcher that does not escape or whose escaping
\* leaves s as it is.
C8_OneShortWritePlain ==
    \A c \in Ids :
        (OneWrite(c) /\ Len(arg.val) < catchers[c].max_length
            /\ (~catchers[c].escaped \/ escape_output(arg.val) = arg.val))
            => /\ catchers[c]._output = arg.val
               /\ ~catchers[c].max_exceeded

\* C8 witness: a short non-empty str written once, kept as it is, buffer open
C8_Witness ==
    /\ OneWrite(1)
    /\ arg.val # <<>>
    /\ Len(arg.val) < catchers[1].max_length
    /\ catchers[1]._output = arg.val
    /\ ~catchers[1].max_exceeded

\* the timeout in force, as the claim reads it: the one passed to run(), else
\* the one given at construction
TimeoutInForce == IF run_timeout # None THEN run_timeout ELSE timeout

\* C9 as stated: when a timeout is in force and has elapsed with the child
\* not exited, run() fails with the timeout error, whether or not the child
\* has closed its pipes.  (Stated for the timeouts > 0, which take time to
\* elapse.)
C9_TimeoutAlwaysApplies ==
    (pc \in {"read_out", "read_err", "wait"}
        /\ TimeoutInForce > 0 /\ t >= TimeoutInForce /\ ~child.exited)
        => ENABLED WaitTimeout

\* the timeout run() waits with: its own argument unless that is None or 0,
\* else the one given at construction
EffectiveTimeout ==
    IF run_timeout \notin {None, 0} THEN run_timeout ELSE timeout

\* C9 amended: once both pipes are at end of file and run() waits, an
\* effective timeout that has elapsed since the wait began with the child not
\* exited makes run() fail with the timeout error (and not return); while
\* run() still reads a pipe no timeout applies.
C9_TimeoutAfterCollection ==
    /\ (pc = "wait" /\ EffectiveTimeout # None /\ t >= EffectiveTimeout
            /\ ~child.exited)
          => (ENABLED WaitTimeout /\ ~ENABLED WaitReturn)
    /\ pc \in {"read_out", "read_err"} => ~ENABLED WaitTimeout
    /\ error = "TimeoutExpired" => (~child.open.out /\ ~child.open.err)

\* C9 witness: run() has failed with the timeout error on a child that closed
\* both pipes and has not exited
C9_Witness ==
    /\ pc = "idle"
    /\ error = "TimeoutExpired"
    /\ ~child.exited
    /\ ~child.open.out
    /\ ~child.open.err

\* C10: iterating one stream never deadlocks because of the other: while the
\* iteration is in progress, the iterator or the child can always take a step.
C10_IterNeverDeadlocks ==
    pc \in {"iter_out", "iter_err"} => ENABLED (IterStep \/ ChildStep)

\* the lines of a byte string: it is cut after every newline, the newline is
\* left out, and what follows the last newline, if anything, is the last line
RECURSIVE LinesOf(_)
LinesOf(b) ==
    IF b = <<>> THEN <<>>
    ELSE IF ~HasNL(b) THEN <<b>>
    ELSE LET i == CHOOSE k \in 1..Len(b) :
                      b[k] = "NL" /\ \A j \in 1..(k - 1) : b[j] # "NL"
         IN  <<SubSeq(b, 1, i - 1)>> \o LinesOf(SubSeq(b, i + 1, Len(b)))

IsPrefix(p, s) == Len(p) <= Len(s) /\ p = SubSeq(s, 1, Len(p))

\* C11: iter_stdout() and iter_stderr() yield the lines the child wrote to
\* that stream, one element per line and without the newline, in the order
\* written and with none lost, duplicated or merged: what has been yielded so
\* far is always a prefix of the lines written, and all of them when the
\* iteration ends.  (A line ends with "\n", as for readline(); what becomes
\* of a "\r" before it is the matter of C14.)
C11_LinesInOrder ==
    pc \in {"iter_out", "iter_err"}
        => /\ IsPrefix(lines[Fd], LinesOf(sent[Fd]))
           /\ StreamDone => lines[Fd] = LinesOf(sent[Fd])

\* C11 witness: the iteration over the stdout of a child that echoes
\* "a\nb\nc" has ended and has yielded a, b, c
C11_Witness ==
    /\ pc = "iter_out"
    /\ StreamDone
    /\ stdin_data = Str(ABC)
    /\ sent.out \in {ABC, ABC \o <<"NL">>}
    /\ lines.out = << <<"a">>, <<"b">>, <<"c">> >>

\* C12: when the executable cannot be started, run() and the entry of the
\* with-block raise the not-found error before any output field is set: with
\* the error at the caller, stdout and stderr are b'', proc, pid and
\* returncode are None, and the body of the with-block is not running.
C12_NotFoundBeforeFields ==
    error = "FileNotFoundError"
        => /\ stdout = <<>>
           /\ stderr = <<>>
           /\ proc = None
           /\ pid = None
           /\ returncode = None
           /\ pc = "idle"

\* C12 witness: two calls on an instance whose executable is missing have
\* both raised, and no field is set
C12_Witness ==
    /\ args = "missing"
    /\ calls = 2
    /\ error = "FileNotFoundError"
    /\ proc = None
    /\ stdout = <<>>

\* C13: once run() has completed on an instance (it has set returncode), no
\* later operation on the instance changes stdout, stderr or returncode or
\* launches another process.
C13_ImmutableAfterRun ==
    [][returncode # None
          => /\ stdout' = stdout
             /\ stderr' = stderr
             /\ returncode' = returncode
             /\ proc' = proc]_vars

\* a line without the "\r" of a "\r\n" terminator
StripCR(l) ==
    IF l # <<>> /\ l[Len(l)] = "CR" THEN SubSeq(l, 1, Len(l) - 1) ELSE l

\* the lines of a byte string with their terminators, "\n" or "\r\n", left
\* out; what follows the last terminator, if anything, is the last line
RECURSIVE TermLinesOf(_)
TermLinesOf(b) ==
    IF b = <<>> THEN <<>>
    ELSE IF ~HasNL(b) THEN <<b>>
    ELSE LET i == CHOOSE k \in 1..Len(b) :
                      b[k] = "NL" /\ \A j \in 1..(k - 1) : b[j] # "NL"
         IN  <<StripCR(SubSeq(b, 1, i - 1))>>
                 \o TermLinesOf(SubSeq(b, i + 1, Len(b)))

\* C14: when run() has collected the output, stdout and stderr are the lines
\* the child wrote to that stream, each without its terminator ("\n" or
\* "\r\n"), joined with single "\n": outputs that differ only in their
\* terminators are captured as the same bytes.
C14_TerminatorsNormalized ==
    pc = "wait"
        => /\ stdout = join(TermLinesOf(sent.out))
           /\ stderr = join(TermLinesOf(sent.err))

\* the bytes of stdin_data: a str is encoded
DataBytes == IF stdin_data.type = "str" THEN encode(stdin_data.val)
             ELSE stdin_data.val

\* C15: run on a child that copies its stdin to its stdout, run() leaves
\* stdout equal to stdin_data (encoded when it is a str), byte for byte.
C15_EchoRoundTrip ==
    (pc = "wait" /\ args = "cat") => stdout = DataBytes

\* C16: write() of a value that is no str raises TypeError in every state of
\* the buffer (fresh, partly filled, closed) and leaves the catcher's output,
\* length and max_exceeded as they were.
C16_NonStrRaisesAndKeeps ==
    [][\A c \in Ids :
          Write(c, NonStr)
              => /\ exc' = "TypeError"
                 /\ catchers'[c]._output = catchers[c]._output
                 /\ catchers'[c].length = catchers[c].length
                 /\ catchers'[c].max_exceeded = catchers[c].max_exceeded]_vars

\* C16 witness: a write() of a non-str on a buffer closed by truncation has
\* raised TypeError
C16_Witness ==
    /\ exc = "TypeError"
    /\ arg = NonStr
    /\ catchers[1].max_exceeded
    /\ catchers[1]._output # <<>>

Other(k) == IF k = "out" THEN "err" ELSE "out"

\* a step on the stream k: a catcher of that kind is entered, the stream is
\* written to, or the innermost block, of a catcher of that kind, is left
StepOn(k) ==
    \/ \E cfg \in ScopeConfigs : With(k, cfg.escaped, cfg.max_length)
    \/ \E s \in ScopeArgs : WriteStream(k, s)
    \/ blocks # <<>> /\ catchers[blocks[Len(blocks)].cat].kind = k /\ Exit

\* there is one catcher of a kind at most
OneOfAKind == \A c, d \in Ids : c # d => catchers[c].kind # catchers[d].kind

\* a catcher that neither escapes nor truncates holds what its stream was
\* given during its block
OwnOutput ==
    \A c \in Ids :
        (~catchers[c].escaped /\ catchers[c].max_length = 0)
            => catchers[c]._output = seen[c]

\* C17: a StdOutCatcher and a StdErrCatcher occupy independent slots: a step
\* on one stream (enter, write, exit) leaves the binding of the other stream
\* and the catchers of the other kind as they were, and with one catcher of
\* each kind the output of each (escaping and truncation aside) is what was
\* written to its own stream during its block.
C17_IndependentSlots ==
    [][/\ \A k \in Kinds :
            StepOn(k)
                => /\ Binding(Other(k))' = Binding(Other(k))
                   /\ \A c \in Ids :
                          catchers[c].kind = Other(k) => catchers'[c] = catchers[c]
       /\ (OneOfAKind => OwnOutput)']_vars

\* C17 witness: a StdOutCatcher and a StdErrCatcher were both written through
\* in nested blocks, the inner block is left and the outer one is still bound
C17_Witness ==
    /\ Cardinality(Ids) = 2
    /\ OneOfAKind
    /\ Len(blocks) = 1
    /\ Binding(catchers[1].kind) = 1
    /\ \A c \in Ids : seen[c] # <<>> /\ catchers[c]._output = seen[c]

\* C18: with escaped = True, after any sequence of writes of text that may
\* hold control characters, with or without a max_length, the output holds no
\* raw control character.
C18_NoRawControlChars ==
    \A c \in Ids :
        catchers[c].escaped
            => \A i \in 1..Len(catchers[c]._output) :
                   catchers[c]._output[i] \notin ControlChars

\* C18 witness: an escaping catcher with a max_length was given a newline and
\* a carriage return and has closed its buffer with output in it
C18_Witness ==
    /\ catchers[1].escaped
    /\ catchers[1].max_exceeded
    /\ Has(written[1], "NL")
    /\ Has(written[1], "CR")
    /\ catchers[1]._output # <<>>

\* C19: the temporary file made from stdin_data is closed whenever the
\* launch step has returned or raised: after a launch on an instance with
\* stdin_data it is closed, whether the spawn succeeded or failed, and it is
\* never left open.
C19_TempStdinClosed ==
    /\ stdin_file # "open"
    /\ (calls > 0 /\ stdin_data # NoData) => stdin_file = "closed"

\* C19 witness: the spawn has failed on an instance with stdin_data, and the
\* temporary file is closed
C19_Witness ==
    /\ error = "FileNotFoundError"
    /\ stdin_data # NoData
    /\ stdin_file = "closed"

\* C20: in every state a returncode that is not None belongs to the current
\* process handle: self.proc is the process whose wait() returned it.
C20_ReturncodeOfCurrentProc ==
    returncode # None => waited = proc

\* the step on which run() fails with the timeout error
TimesOut == error # "TimeoutExpired" /\ error' = "TimeoutExpired"

\* C21: a timeout is a wait with a deadline only: the step on which the wait
\* of run() times out raises the timeout error and does nothing to the child,
\* which has not exited and is left running as it was (no kill, no
\* terminate); returncode is left as it was, None when no earlier wait of the
\* instance has returned.
C21_TimeoutLeavesChildRunning ==
    [][TimesOut
          => /\ pc = "wait"
             /\ child' = child
             /\ ~child'.exited
             /\ returncode' = returncode
             /\ (waited = None => returncode' = None)]_vars

\* C21 witness: the first run() of an instance has failed with the timeout
\* error; its child has not exited and returncode is None
C21_Witness ==
    /\ error = "TimeoutExpired"
    /\ calls = 1
    /\ proc = 1
    /\ ~child.exited
    /\ returncode = None

\* the smaller of two numbers
Min(a, b) == IF a <= b THEN a ELSE b

\* the first n characters of s, all of s when it is shorter
Take(s, n) == SubSeq(s, 1, Min(n, Len(s)))

\* C22: for a catcher that does not escape, after any sequence of str writes
\* the output is the first min(max_length, total length) characters of the
\* concatenation of all the strings written when max_length > 0, and the
\* whole concatenation when max_length = 0; what is written after the buffer
\* closed adds nothing.
C22_UnescapedIsPrefix ==
    \A c \in Ids :
        ~catchers[c].escaped
            => catchers[c]._output =
                  IF catchers[c].max_length > 0
                  THEN Take(written[c], catchers[c].max_length)
                  ELSE written[c]

\* C22 witness: a catcher that does not escape was closed when its output
\* reached max_length and was then given more text, which it dropped
C22_Witness ==
    /\ ~catchers[1].escaped
    /\ catchers[1].max_length = 2
    /\ catchers[1].max_exceeded
    /\ Len(written[1]) = 3
    /\ Len(arg.val) = 1
    /\ ret = 0
    /\ catchers[1]._output = SubSeq(written[1], 1, 2)

\* C23: write(s) of a str returns len(s), the whole length of its argument,
\* whenever s is not empty and the buffer was not closed before the call,
\* the call on which truncation keeps only a part of s included; it returns 0
\* only when s is empty or the buffer was closed before the call; and an
\* empty write changes neither the output nor the closed flag.
C23_WriteReturnsLen ==
    [][\A c \in Ids :
          (exc = "none" /\ arg'.type = "str")
              => /\ exc' = "none"
                 /\ ret' = IF arg'.val = <<>> \/ catchers[c].max_exceeded
                           THEN 0
                           ELSE Len(arg'.val)
                 /\ arg'.val = <<>> => catchers'[c] = catchers[c]]_vars

\* C23 witness: the first write to a catcher was longer than max_length: a
\* part of it was kept, the buffer closed, and the whole length came back
C23_Witness ==
    /\ OneWrite(1)
    /\ catchers[1].max_length > 0
    /\ Len(arg.val) > catchers[1].max_length
    /\ catchers[1].max_exceeded
    /\ ~catchers[1].escaped
    /\ Len(catchers[1]._output) < Len(arg.val)
    /\ ret = Len(arg.val)

\* a step of an iteration: its launch, a step while it is consumed, its end
InIteration == call = "iter" \/ call' = "iter"

\* C24: consuming iter_stdout() or iter_stderr(), in part or to exhaustion,
\* launches the process and sets proc and pid, and that is all it does to the
\* instance: no step of it waits on the child, and stdout, stderr and
\* returncode stay as they were before the iteration, which on a fresh
\* instance is b'', b'' and None.
C24_IterationFrame ==
    [][InIteration
          => /\ stdout' = stdout
             /\ stderr' = stderr
             /\ returncode' = returncode
             /\ waited' = waited
             /\ IF call = "none"
                THEN proc' = calls' /\ pid' = calls'
                ELSE proc' = proc /\ pid' = pid
             /\ calls' = 1
                   => (stdout' = <<>> /\ stderr' = <<>> /\ returncode' = None)]_vars

\* C24 witness: the first call on an instance was an iteration of stdout that
\* yielded a line and came to its end: proc and pid are set, nothing was
\* waited on, and stdout, stderr and returncode are as __init__ left them
C24_Witness ==
    /\ calls = 1
    /\ pc = "idle"
    /\ error = "none"
    /\ lines.out # <<>>
    /\ AtEOF("out")
    /\ proc = 1
    /\ pid = 1
    /\ waited = None
    /\ stdout = <<>>
    /\ stderr = <<>>
    /\ returncode = None

====
